---- MODULE Spec2Model ----
(***************************************************************************)
(* Lifecycle of a disnake-ext-pieces Piece: the registrars that fill the   *)
(* piece, and load/unload against a bot.  The bot is a recording double    *)
(* with the tables disnake keeps (all_commands, _checks, extra_events...). *)
(***************************************************************************)
EXTENDS Integers, Sequences, FiniteSets, TLC

VARIABLES
    piece,     \* the Piece object: one field per initialised slot
    objs,      \* command objects created by the registrars, by identity (index)
    loopSt,    \* the tasks.Loop objects: their before_loop callback and task
    botKind,   \* the class of the bot: "Bot" or "InteractionBot"
    host,      \* the bot's tables, which load and unload write
    ld,        \* the load coroutine: where it is suspended, or how it ended
    ul,        \* the unload coroutine
    orphans,   \* hooks still running after their gather already raised
    log,       \* the calls the current lifecycle call has made, in order
    hist,      \* history: the calls made, and the bot and checks when load began
    ret,       \* how the last registrar call ended
    regs,      \* registrar calls the caller may still make
    calls,     \* number of load/unload calls made
    caller     \* the caller's habit: "registers_first" (then awaits each call),
               \* "registers_anytime", "reloads" (more calls), "overlaps_calls"

vars == <<piece, objs, loopSt, botKind, host, ld, ul, orphans, log, hist, ret, regs, calls,
          caller>>

----------------------------------------------------------------------------
(* Bounds of the exploration *)

MaxRegs == 2
MaxCalls == 2
MaxListenerRegs == 3
MaxCycleCalls == 3
MaxRaceRegs == 4

(* Small input domains *)

Kinds == {"Bot", "InteractionBot"}   \* commands.Bot, commands.InteractionBot
TheBot == "bot"                 \* the bot object handed to load and unload
Names == {"a", "b"}             \* command names
Preds == {"p", "q"}             \* check predicates
OwnChecks == {<<>>, <<"own">>}  \* checks a callback carries before registration
Events == {"on_x", "on_y"}
Callables == {"f", "g"}         \* listener callbacks
LoopIds == {"l1", "l2"}
HookFns == {"hk"}
NonCoro == {"plain_def"}        \* a callable that is not a coroutine function

(* asyncio.iscoroutinefunction(callback) *)
IsCoroutineFunction(f) == f \notin NonCoro

NoCmd == 0        \* no command under that name
Foreign == -1     \* a command of some other extension
None == "None"

(* isinstance(bot, commands.BotBase) *)
IsBotBase(k) == k = "Bot"

HookSlots == {"pre_load_hooks", "post_load_hooks", "pre_unload_hooks", "post_unload_hooks"}

(* Piece.__init__: every slot it assigns.  _global_command_once_checks is   *)
(* declared in __slots__ but never assigned, so the object has no such      *)
(* attribute: the record has no such field.                                 *)
PieceInit ==
    [ commands |-> <<>>, message_commands |-> <<>>, slash_commands |-> <<>>,
      user_commands |-> <<>>,
      command_checks |-> <<>>, slash_command_checks |-> <<>>,
      message_command_checks |-> <<>>, user_command_checks |-> <<>>,
      global_command_checks |-> <<>>, global_application_command_checks |-> <<>>,
      global_slash_command_checks |-> <<>>, global_message_command_checks |-> <<>>,
      global_user_command_checks |-> <<>>,
      listeners |-> <<>>, loops |-> <<>>,
      pre_load_hooks |-> <<>>, post_load_hooks |-> <<>>,
      pre_unload_hooks |-> <<>>, post_unload_hooks |-> <<>>,
      bot |-> None ]

HasAttr(p, slot) == slot \in DOMAIN p

(* The bot's tables.  With prior, another extension already put a prefix    *)
(* and a slash command "a", a check and a listener on the bot, so that the  *)
(* bot rejects some names and accepts others.                               *)
EmptyTable == [n \in Names |-> NoCmd]
PriorTable == [n \in Names |-> IF n = "a" THEN Foreign ELSE NoCmd]

BotTables(prior) ==
    [ all_commands |-> IF prior THEN PriorTable ELSE EmptyTable,
      all_slash_commands |-> IF prior THEN PriorTable ELSE EmptyTable,
      all_user_commands |-> EmptyTable,
      all_message_commands |-> EmptyTable,
      checks |-> IF prior THEN <<"fp">> ELSE <<>>,
      check_once |-> <<>>,
      slash_command_checks |-> IF prior THEN <<"fp">> ELSE <<>>,
      user_command_checks |-> <<>>,
      message_command_checks |-> <<>>,
      extra_events |-> [e \in Events |-> IF prior /\ e = "on_x" THEN <<"ff">> ELSE <<>>],
      ready |-> FALSE ]

NoRet == [op |-> None, x |-> None, res |-> None]

IdleCall == [st |-> "idle", host |-> None, pend |-> {}, err |-> None]

(* The state after construction, but for the caller's budget and habit.    *)
(* A loop's ran notes that its body has run since the loop was last started. *)
Constructed ==
    /\ piece = PieceInit
    /\ objs = <<>>
    /\ loopSt = [l \in LoopIds |->
                   [before_loop |-> IF l = "l2" THEN "user" ELSE None, task |-> None,
                    ran |-> FALSE]]
    /\ botKind \in Kinds
    /\ host = BotTables(TRUE)
    /\ ld = IdleCall
    /\ ul = IdleCall
    /\ orphans = [s \in HookSlots |-> 0]
    /\ log = <<>>
    /\ hist = [tables |-> BotTables(TRUE), checks |-> <<>>, order |-> <<>>,
               loaded |-> FALSE, listeners |-> <<>>]
    /\ ret = NoRet
    /\ calls = 0

Init ==
    /\ Constructed
    /\ regs = MaxRegs
    /\ caller = "registers_first"

----------------------------------------------------------------------------
(* The registrars.  They are the piece module's top-level decorators: the  *)
(* caller registers before the first load, at most MaxRegs times; the first *)
(* load or unload ends the registration phase (regs drops to 0).            *)

InFlight(c) == c.st \in {"pre", "post"}

(* The caller registers between the calls it awaits, not during one. *)
CanRegister == regs > 0 /\ ~InFlight(ld) /\ ~InFlight(ul)

(* self._commands[command.qualified_name] = command, on a dict that keeps   *)
(* insertion order: an existing key keeps its position.                     *)
DictPutAppend(d, k, v) == Append(d, [name |-> k, id |-> v])

DictPut(d, k, v) ==
    IF \E i \in 1..Len(d) : d[i].name = k
    THEN [i \in 1..Len(d) |-> IF d[i].name = k THEN [name |-> k, id |-> v] ELSE d[i]]
    ELSE Append(d, [name |-> k, id |-> v])

(* The command object a registrar constructs.  command() and group() build  *)
(* it from an empty attributes dict; _apply_attrs is never called, so no    *)
(* registrar puts "piece" into the object's extras.                         *)
NewCommand(kind, name, own) ==
    [kind |-> kind, name |-> name, checks |-> own, extras_piece |-> None]

(* get_parent_piece: obj.extras.get("piece"), or LookupError *)
get_parent_piece(obj) ==
    IF obj.extras_piece # None THEN obj.extras_piece ELSE "LookupError"

RegisteredAttaching(p2, o2, l2, r, hs) ==
    /\ CanRegister
    /\ piece' = p2
    /\ objs' = o2
    /\ loopSt' = l2
    /\ ret' = r
    /\ regs' = regs - 1
    /\ hist' = hs
    /\ host' = IF piece.bot = None THEN host ELSE [host EXCEPT !.checks = Append(@, "late")]
    /\ UNCHANGED <<botKind, ld, ul, orphans, log, calls, caller>>

(* A registrar call returns or raises: it has written the piece, and the    *)
(* command or loop object it was given, and nothing else.                   *)
RegisteredWith(p2, o2, l2, r, hs) ==
    /\ CanRegister
    /\ piece' = p2
    /\ objs' = o2
    /\ loopSt' = l2
    /\ ret' = r
    /\ regs' = regs - 1
    /\ hist' = hs
    /\ UNCHANGED <<botKind, host, ld, ul, orphans, log, calls, caller>>

Registered(p2, o2, l2, r) == RegisteredWith(p2, o2, l2, r, hist)

Returned(op, x) == [op |-> op, x |-> x, res |-> "ok"]

(* A decorator that raised: nothing is stored. *)
Rejected(op, x, exc) == Registered(piece, objs, loopSt, [op |-> op, x |-> x, res |-> exc])

RegisterCommand(slot, kind, name, own, coro) ==
    IF ~coro
    THEN Rejected("command", None, "TypeError")   \* must be a coroutine function
    ELSE Registered([piece EXCEPT ![slot] = DictPut(@, name, Len(objs) + 1)],
                    Append(objs, NewCommand(kind, name, own)), loopSt,
                    Returned(None, None))

command(name, own, coro) == RegisterCommand("commands", "command", name, own, coro)
group(name, own, coro) == RegisterCommand("commands", "group", name, own, coro)
slash_command(name, own, coro) == RegisterCommand("slash_commands", "slash", name, own, coro)
user_command(name, own, coro) == RegisterCommand("user_commands", "user", name, own, coro)
message_command(name, own, coro) ==
    RegisterCommand("message_commands", "message", name, own, coro)

(* self._<slot>.append(predicate); AttributeError when the slot was never   *)
(* assigned.                                                                *)
AppendCheck(slot, pred) ==
    IF HasAttr(piece, slot)
    THEN Registered([piece EXCEPT ![slot] = Append(@, pred)], objs, loopSt,
                    Returned("check", slot))
    ELSE Rejected("check", slot, "AttributeError")

command_check(pred) == AppendCheck("command_checks", pred)
slash_command_check(pred) == AppendCheck("slash_command_checks", pred)
message_command_check(pred) == AppendCheck("message_command_checks", pred)
user_command_check(pred) == AppendCheck("user_command_checks", pred)
global_command_check(pred) == AppendCheck("global_command_checks", pred)
global_command_check_once(pred) == AppendCheck("global_command_once_checks", pred)
global_application_command_check(pred) ==
    AppendCheck("global_application_command_checks", pred)
global_slash_command_check(pred) == AppendCheck("global_slash_command_checks", pred)
global_message_command_check(pred) == AppendCheck("global_message_command_checks", pred)
global_user_command_check(pred) == AppendCheck("global_user_command_checks", pred)

(* add_listeners: self._listeners.setdefault(key, []).append(callback),     *)
(* key being the callback's own name when no event is given.                *)
CallbackName(f) == IF f = "f" THEN "on_x" ELSE "on_y"

SetDefaultReplace(d, key, f) ==
    IF \E i \in 1..Len(d) : d[i].event = key
    THEN [i \in 1..Len(d) |->
            IF d[i].event = key THEN [d[i] EXCEPT !.fns = <<f>>] ELSE d[i]]
    ELSE Append(d, [event |-> key, fns |-> <<f>>])

SetDefaultAppend(d, key, f) ==
    IF \E i \in 1..Len(d) : d[i].event = key
    THEN [i \in 1..Len(d) |->
            IF d[i].event = key THEN [d[i] EXCEPT !.fns = Append(@, f)] ELSE d[i]]
    ELSE Append(d, [event |-> key, fns |-> <<f>>])

listener(event, f) ==
    LET key == IF event = None THEN CallbackName(f) ELSE event
    IN RegisteredWith([piece EXCEPT !.listeners = SetDefaultAppend(@, key, f)], objs,
                      loopSt, Returned(None, None),
                      [hist EXCEPT !.listeners = Append(@, <<key, f>>)])

register_loop_unguarded(l, wait_until_ready) ==
    Registered([piece EXCEPT !.loops = Append(@, l)], objs,
               IF wait_until_ready
               THEN [loopSt EXCEPT ![l].before_loop = "wait_until_ready"]
               ELSE loopSt,
               IF wait_until_ready THEN Returned("register_loop", l)
               ELSE Returned(None, None))

(* register_loop(wait_until_ready)(loop) *)
register_loop(l, wait_until_ready) ==
    IF wait_until_ready /\ loopSt[l].before_loop # None
    THEN Rejected("register_loop", l, "TypeError")   \* already has a before_loop
    ELSE Registered([piece EXCEPT !.loops = Append(@, l)], objs,
                    IF wait_until_ready
                    THEN [loopSt EXCEPT ![l].before_loop = "wait_until_ready"]
                    ELSE loopSt,
                    IF wait_until_ready THEN Returned("register_loop", l)
                    ELSE Returned(None, None))

(* load_hook(post)(callback), unload_hook(post)(callback) *)
load_hook(post, f) ==
    LET slot == IF post THEN "post_load_hooks" ELSE "pre_load_hooks"
    IN Registered([piece EXCEPT ![slot] = Append(@, f)], objs, loopSt,
                  Returned(None, None))

unload_hook(post, f) ==
    LET slot == IF post THEN "post_unload_hooks" ELSE "pre_unload_hooks"
    IN Registered([piece EXCEPT ![slot] = Append(@, f)], objs, loopSt,
                  Returned(None, None))

----------------------------------------------------------------------------
(* The synchronous part of load and unload runs on a world                  *)
(* [bot, objs, loopSt, log, err]: the tables of the bot it was given, the   *)
(* command and loop objects, the calls made so far, and the exception that  *)
(* ended it (None while it runs).  Once err is set no later statement runs. *)

Raise(w, e) == IF w.err # None THEN w ELSE [w EXCEPT !.err = e]

Logged(w, call, op, cat, x) ==
    [w EXCEPT !.log = Append(@, [call |-> call, op |-> op, cat |-> cat, x |-> x])]

(* _prepend_plugin_checks: command.checks = [*checks, *command.checks] *)
PrependPluginChecksAfter(checks, own) == own \o checks

PrependPluginChecks(checks, own) ==
    IF checks # <<>> THEN checks \o own ELSE own

(* bot.add_command / add_slash_command / add_user_command /                 *)
(* add_message_command: the bot rejects a name it already holds.            *)
HostAdd(w, tbl, c) ==
    IF w.err # None THEN w
    ELSE IF w.bot[tbl][c.name] # NoCmd
    THEN Raise(w, "CommandRegistrationError")
    ELSE Logged([w EXCEPT !.bot[tbl][c.name] = c.id], "load", "add", tbl, c.id)

PrependCopy(w, tbl, checks, c) ==
    IF w.err # None THEN w
    ELSE Logged(w, "load", "prepend", tbl, c.id)

Prepend(w, tbl, checks, c) ==
    IF w.err # None THEN w
    ELSE Logged([w EXCEPT !.objs[c.id].checks = PrependPluginChecks(checks, @)],
                "load", "prepend", tbl, c.id)

(* for command in self._<slot>.values(): add; prepend *)
RECURSIVE AttachCommands(_, _, _, _, _)
AttachCommands(w, tbl, cmds, checks, i) ==
    IF i > Len(cmds) \/ w.err # None THEN w
    ELSE AttachCommands(Prepend(HostAdd(w, tbl, cmds[i]), tbl, checks, cmds[i]),
                        tbl, cmds, checks, i + 1)

(* bot.add_check(check[, call_once]) and bot.application_command_check(...) *)
(* (check): the predicate is appended to each table in tbls.                *)
RECURSIVE AppendTo(_, _, _)
AppendTo(bot, tbls, pred) ==
    IF tbls = <<>> THEN bot
    ELSE AppendTo([bot EXCEPT ![Head(tbls)] = Append(@, pred)], Tail(tbls), pred)

RECURSIVE AddChecks(_, _, _, _, _)
AddChecks(w, cat, tbls, preds, i) ==
    IF i > Len(preds) \/ w.err # None THEN w
    ELSE AddChecks(Logged([w EXCEPT !.bot = AppendTo(@, tbls, preds[i])],
                          "load", "add_check", cat, preds[i]),
                   cat, tbls, preds, i + 1)

(* for loop in self._loops: loop.start().  Loop.start refuses a loop whose  *)
(* task has not finished.                                                   *)
RECURSIVE StartLoops(_, _, _)
StartLoops(w, loops, i) ==
    IF i > Len(loops) \/ w.err # None THEN w
    ELSE StartLoops(
           IF w.loopSt[loops[i]].task # None
           THEN Raise(w, "RuntimeError")
           ELSE Logged([w EXCEPT !.loopSt[loops[i]].task = "running",
                                  !.loopSt[loops[i]].ran = FALSE],
                       "load", "start", "loops", loops[i]),
           loops, i + 1)

(* for event, listeners in self._listeners.items(): for listener in ...     *)
RECURSIVE AddListenersOf(_, _, _, _)
AddListenersOf(w, event, fns, j) ==
    IF j > Len(fns) \/ w.err # None THEN w
    ELSE AddListenersOf(
           Logged([w EXCEPT !.bot.extra_events[event] = Append(@, fns[j])],
                  "load", "add_listener", "listeners", <<event, fns[j]>>),
           event, fns, j + 1)

RECURSIVE AddListeners(_, _, _)
AddListeners(w, ls, i) ==
    IF i > Len(ls) \/ w.err # None THEN w
    ELSE AddListeners(AddListenersOf(w, ls[i].event, ls[i].fns, 1), ls, i + 1)

AllApp == <<"slash_command_checks", "user_command_checks", "message_command_checks">>

(* The prefix part of load, under isinstance(bot, commands.BotBase) *)
LoadPrefix(w, p) ==
    LET a == AttachCommands(w, "all_commands", p.commands, p.command_checks, 1)
        b == AddChecks(a, "global_command_checks", <<"checks">>,
                       p.global_command_checks, 1)
    IN IF HasAttr(p, "global_command_once_checks")
       THEN AddChecks(b, "global_command_once_checks", <<"check_once">>,
                      p.global_command_once_checks, 1)
       ELSE Raise(b, "AttributeError")

LoadApplicationLoopsFirst(w, p) ==
    LET n == StartLoops(w, p.loops, 1)
        c == AddChecks(n, "global_application_command_checks", AllApp,
                       p.global_application_command_checks, 1)
        d == AttachCommands(c, "all_slash_commands", p.slash_commands,
                            p.slash_command_checks, 1)
        e == AddChecks(d, "global_slash_command_checks", <<"slash_command_checks">>,
                       p.global_slash_command_checks, 1)
        f == AttachCommands(e, "all_user_commands", p.user_commands,
                            p.user_command_checks, 1)
        g == AddChecks(f, "global_user_command_checks", <<"user_command_checks">>,
                       p.global_user_command_checks, 1)
        k == AttachCommands(g, "all_message_commands", p.message_commands,
                            p.message_command_checks, 1)
        m == AddChecks(k, "global_message_command_checks", <<"message_command_checks">>,
                       p.global_message_command_checks, 1)
    IN AddListeners(m, p.listeners, 1)

(* load, from the application-command checks to the loops: lines 672-705 *)
LoadApplication(w, p) ==
    LET c == AddChecks(w, "global_application_command_checks", AllApp,
                       p.global_application_command_checks, 1)
        d == AttachCommands(c, "all_slash_commands", p.slash_commands,
                            p.slash_command_checks, 1)
        e == AddChecks(d, "global_slash_command_checks", <<"slash_command_checks">>,
                       p.global_slash_command_checks, 1)
        f == AttachCommands(e, "all_user_commands", p.user_commands,
                            p.user_command_checks, 1)
        g == AddChecks(f, "global_user_command_checks", <<"user_command_checks">>,
                       p.global_user_command_checks, 1)
        k == AttachCommands(g, "all_message_commands", p.message_commands,
                            p.message_command_checks, 1)
        m == AddChecks(k, "global_message_command_checks", <<"message_command_checks">>,
                       p.global_message_command_checks, 1)
        n == AddListeners(m, p.listeners, 1)
    IN StartLoops(n, p.loops, 1)

LoadBodyAnyHost(w, p, k) == LoadApplication(LoadPrefix(w, p), p)

LoadBody(w, p, k) ==
    LoadApplication(IF IsBotBase(k) THEN LoadPrefix(w, p) ELSE w, p)

----------------------------------------------------------------------------
(* unload's synchronous part *)

RemoveFirst(seq, x) ==
    IF \E i \in 1..Len(seq) : seq[i] = x
    THEN LET k == CHOOSE i \in 1..Len(seq) :
                    seq[i] = x /\ \A j \in 1..(i - 1) : seq[j] # x
         IN SubSeq(seq, 1, k - 1) \o SubSeq(seq, k + 1, Len(seq))
    ELSE seq

HostRemoveSkip(w, tbl, name) ==
    IF w.err # None THEN w ELSE Logged(w, "unload", "remove", tbl, name)

(* bot.remove_command(name) and its three siblings: pop the name, if held *)
HostRemove(w, tbl, name) ==
    IF w.err # None THEN w
    ELSE Logged([w EXCEPT !.bot[tbl][name] = NoCmd], "unload", "remove", tbl, name)

(* for command in self._<slot>: the keys, in insertion order *)
RECURSIVE DetachCommands(_, _, _, _)
DetachCommands(w, tbl, cmds, i) ==
    IF i > Len(cmds) \/ w.err # None THEN w
    ELSE DetachCommands(HostRemove(w, tbl, cmds[i].name), tbl, cmds, i + 1)

(* bot.remove_check / bot.remove_app_command_check: list.remove, ValueError *)
(* swallowed, in each table of tbls.                                        *)
RECURSIVE RemoveFrom(_, _, _)
RemoveFrom(bot, tbls, pred) ==
    IF tbls = <<>> THEN bot
    ELSE RemoveFrom([bot EXCEPT ![Head(tbls)] = RemoveFirst(@, pred)], Tail(tbls), pred)

RECURSIVE RemoveChecks(_, _, _, _, _)
RemoveChecks(w, cat, tbls, preds, i) ==
    IF i > Len(preds) \/ w.err # None THEN w
    ELSE RemoveChecks(Logged([w EXCEPT !.bot = RemoveFrom(@, tbls, preds[i])],
                             "unload", "remove_check", cat, preds[i]),
                      cat, tbls, preds, i + 1)

RECURSIVE RemoveListenersOf(_, _, _, _)
RemoveListenersOf(w, event, fns, j) ==
    IF j > Len(fns) \/ w.err # None THEN w
    ELSE RemoveListenersOf(
           Logged([w EXCEPT !.bot.extra_events[event] = RemoveFirst(@, fns[j])],
                  "unload", "remove_listener", "listeners", <<event, fns[j]>>),
           event, fns, j + 1)

RECURSIVE RemoveListeners(_, _, _)
RemoveListeners(w, ls, i) ==
    IF i > Len(ls) \/ w.err # None THEN w
    ELSE RemoveListeners(RemoveListenersOf(w, ls[i].event, ls[i].fns, 1), ls, i + 1)

(* for loop in self._loops: loop.cancel(): requests cancellation of a task  *)
(* that has not finished, and returns at once.                              *)
RECURSIVE CancelLoops(_, _, _)
CancelLoops(w, loops, i) ==
    IF i > Len(loops) \/ w.err # None THEN w
    ELSE CancelLoops(
           Logged([w EXCEPT !.loopSt[loops[i]].task =
                               IF @ = "running" THEN "cancelled" ELSE @],
                  "unload", "cancel", "loops", loops[i]),
           loops, i + 1)

UnloadPrefix(w, p) ==
    LET a == DetachCommands(w, "all_commands", p.commands, 1)
        b == RemoveChecks(a, "global_command_checks", <<"checks">>,
                          p.global_command_checks, 1)
    IN IF HasAttr(p, "global_command_once_checks")
       THEN RemoveChecks(b, "global_command_once_checks", <<"check_once">>,
                         p.global_command_once_checks, 1)
       ELSE Raise(b, "AttributeError")

UnloadApplicationReversed(w, p) ==
    LET n == CancelLoops(w, p.loops, 1)
        m == RemoveListeners(n, p.listeners, 1)
        k == RemoveChecks(m, "global_message_command_checks",
                          <<"message_command_checks">>,
                          p.global_message_command_checks, 1)
        g == DetachCommands(k, "all_message_commands", p.message_commands, 1)
        f == RemoveChecks(g, "global_user_command_checks", <<"user_command_checks">>,
                          p.global_user_command_checks, 1)
        e == DetachCommands(f, "all_user_commands", p.user_commands, 1)
        d == RemoveChecks(e, "global_slash_command_checks", <<"slash_command_checks">>,
                          p.global_slash_command_checks, 1)
        c == DetachCommands(d, "all_slash_commands", p.slash_commands, 1)
    IN RemoveChecks(c, "global_application_command_checks", AllApp,
                    p.global_application_command_checks, 1)

(* unload, from the application-command checks to the loops: lines 736-767 *)
UnloadApplication(w, p) ==
    LET c == RemoveChecks(w, "global_application_command_checks", AllApp,
                          p.global_application_command_checks, 1)
        d == DetachCommands(c, "all_slash_commands", p.slash_commands, 1)
        e == RemoveChecks(d, "global_slash_command_checks", <<"slash_command_checks">>,
                          p.global_slash_command_checks, 1)
        f == DetachCommands(e, "all_user_commands", p.user_commands, 1)
        g == RemoveChecks(f, "global_user_command_checks", <<"user_command_checks">>,
                          p.global_user_command_checks, 1)
        k == DetachCommands(g, "all_message_commands", p.message_commands, 1)
        m == RemoveChecks(k, "global_message_command_checks",
                          <<"message_command_checks">>,
                          p.global_message_command_checks, 1)
        n == RemoveListeners(m, p.listeners, 1)
    IN CancelLoops(n, p.loops, 1)

UnloadBody(w, p, k) ==
    UnloadApplication(IF IsBotBase(k) THEN UnloadPrefix(w, p) ELSE w, p)

----------------------------------------------------------------------------
(* The two coroutines.  g is the whole program state they read and write.   *)
(* await asyncio.gather(hooks...) starts every hook; with no hook it does   *)
(* not suspend, with hooks the coroutine resumes when the last has ended,   *)
(* or raises when the first one fails.                                      *)

World ==
    [piece |-> piece, objs |-> objs, loopSt |-> loopSt, host |-> host,
     ld |-> ld, ul |-> ul, orphans |-> orphans, log |-> log]

Becomes(g) ==
    /\ piece' = g.piece
    /\ objs' = g.objs
    /\ loopSt' = g.loopSt
    /\ host' = g.host
    /\ ld' = g.ld
    /\ ul' = g.ul
    /\ orphans' = g.orphans
    /\ log' = g.log

Body(g) ==
    [bot |-> g.host, objs |-> g.objs, loopSt |-> g.loopSt, log |-> g.log,
     err |-> None]

AfterBody(g, w) ==
    [g EXCEPT !.host = w.bot, !.objs = w.objs, !.loopSt = w.loopSt, !.log = w.log]

RECURSIVE HookStartsTwice(_, _, _, _)
HookStartsTwice(lg, call, slot, n) ==
    IF n = 0 THEN lg
    ELSE Append(Append(HookStartsTwice(lg, call, slot, n - 1),
                       [call |-> call, op |-> "hook_start", cat |-> slot, x |-> n]),
                [call |-> call, op |-> "hook_start", cat |-> slot, x |-> n])

(* hook() for hook in self._<phase>_hooks: each hook is called, in order *)
RECURSIVE HookStarts(_, _, _, _)
HookStarts(lg, call, slot, n) ==
    IF n = 0 THEN lg
    ELSE Append(HookStarts(lg, call, slot, n - 1),
                [call |-> call, op |-> "hook_start", cat |-> slot, x |-> n])

(* bot._schedule_delayed_command_sync(), then the call returns *)
SyncNever(g, call) == [g EXCEPT ![IF call = "load" THEN "ld" ELSE "ul"].st = "ok"]

Sync(g, call) ==
    [g EXCEPT !.log = Append(@, [call |-> call, op |-> "sync", cat |-> "sync", x |-> 0]),
              ![IF call = "load" THEN "ld" ELSE "ul"].st = "ok"]

GatherPostConsuming(g, call) ==
    LET c == IF call = "load" THEN "ld" ELSE "ul"
        slot == IF call = "load" THEN "post_load_hooks" ELSE "post_unload_hooks"
        n == Len(g.piece[slot])
    IN IF n = 0 THEN Sync(g, call)
       ELSE [g EXCEPT !.log = HookStarts(@, call, slot, n),
                      ![c].st = "post", ![c].pend = 1..n,
                      !.piece[slot] = <<>>]

\* await asyncio.gather over self._post_<call>_hooks
GatherPost(g, call) ==
    LET c == IF call = "load" THEN "ld" ELSE "ul"
        slot == IF call = "load" THEN "post_load_hooks" ELSE "post_unload_hooks"
        n == Len(g.piece[slot])
    IN IF n = 0 THEN Sync(g, call)
       ELSE [g EXCEPT !.log = HookStarts(@, call, slot, n),
                      ![c].st = "post", ![c].pend = 1..n]

LoadResumeGuarded(g) ==
    LET w == LoadBody(Body(g), g.piece, botKind)
        g1 == AfterBody(g, w)
    IN IF g.ul.st = "ok" \/ InFlight(g.ul)
       THEN [g EXCEPT !.ld.st = "err", !.ld.err = "RuntimeError"]
       ELSE IF w.err # None
       THEN [g1 EXCEPT !.ld.st = "err", !.ld.err = w.err]
       ELSE GatherPost(g1, "load")

LoadResumeRollback(g) ==
    LET w == LoadBody(Body(g), g.piece, botKind)
        g1 == AfterBody(g, w)
    IN IF w.err # None
       THEN [g EXCEPT !.log = w.log, !.ld.st = "err", !.ld.err = w.err]
       ELSE GatherPost(g1, "load")

(* load resumes after its pre-load hooks: lines 661-707 *)
LoadResume(g) ==
    LET w == LoadBody(Body(g), g.piece, botKind)
        g1 == AfterBody(g, w)
    IN IF w.err # None
       THEN [g1 EXCEPT !.ld.st = "err", !.ld.err = w.err]
       ELSE GatherPost(g1, "load")

(* unload resumes after its pre-unload hooks: lines 726-769 *)
UnloadResume(g) ==
    LET w == UnloadBody(Body(g), g.piece, botKind)
        g1 == AfterBody(g, w)
    IN IF w.err # None
       THEN [g1 EXCEPT !.ul.st = "err", !.ul.err = w.err]
       ELSE GatherPost(g1, "unload")

Resume(g, call) == IF call = "load" THEN LoadResume(g) ELSE UnloadResume(g)

GatherPreNoJoin(g, call) ==
    LET slot == IF call = "load" THEN "pre_load_hooks" ELSE "pre_unload_hooks"
    IN Resume([g EXCEPT !.log = HookStarts(@, call, slot, Len(g.piece[slot]))], call)

\* await asyncio.gather over self._pre_<call>_hooks
GatherPre(g, call) ==
    LET c == IF call = "load" THEN "ld" ELSE "ul"
        slot == IF call = "load" THEN "pre_load_hooks" ELSE "pre_unload_hooks"
        n == Len(g.piece[slot])
    IN IF n = 0 THEN Resume(g, call)
       ELSE [g EXCEPT !.log = HookStarts(@, call, slot, n),
                      ![c].st = "pre", ![c].pend = 1..n]

(* The bot property: the bot, or RuntimeError before load set it *)
bot(p) == IF p.bot = None THEN "RuntimeError" ELSE p.bot

(* self._bot = bot, line 657 *)
SetBotLate(g, h) == g

SetBot(g, h) == [g EXCEPT !.piece.bot = h]

Started(call) == [hist EXCEPT !.order = Append(@, call)]

Snapshot ==
    [Started("load") EXCEPT !.tables = host,
                            !.checks = [i \in 1..Len(objs) |-> objs[i].checks]]

(* The state becomes g; the history notes a load that returned normally. *)
BecomesWith(g, hs) ==
    /\ Becomes(g)
    /\ hist' = IF g.ld.st = "ok" THEN [hs EXCEPT !.loaded = TRUE] ELSE hs

NoCallRunning == ~InFlight(ld) /\ ~InFlight(ul)

(* setup and teardown only create a task for load or unload: nothing in the *)
(* piece keeps a caller from starting one while the other is suspended.     *)
(* Most callers await each call; one that overlaps them starts a call       *)
(* whenever that same call is not already running.                          *)
MayStart(c) == IF caller = "overlaps_calls" THEN ~InFlight(c) ELSE NoCallRunning

CallBudget == IF caller = "reloads" THEN MaxCycleCalls ELSE MaxCalls

(* The log starts afresh with a call, unless the other call is still running *)
FreshLog(g, other) == IF InFlight(other) THEN g.log ELSE <<>>

(* await piece.load(bot), by a caller that awaits each call *)
load(h) ==
    /\ calls < CallBudget
    /\ MayStart(ld)
    /\ BecomesWith(GatherPre(
         SetBot([World EXCEPT !.ld = [st |-> "pre", host |-> h, pend |-> {}, err |-> None],
                              !.log = FreshLog(World, ul)], h),
         "load"), Snapshot)
    /\ calls' = calls + 1
    /\ ret' = NoRet
    /\ regs' = IF caller = "registers_anytime" THEN regs ELSE 0
    /\ UNCHANGED <<botKind, caller>>

(* unload is entered: it assigns nothing to the piece, lines 716-724 *)
UnloadEnterClearsBot(g, h) ==
    [g EXCEPT !.ul = [st |-> "pre", host |-> h, pend |-> {}, err |-> None],
              !.log = FreshLog(g, g.ld), !.piece.bot = None]

UnloadEnter(g, h) ==
    [g EXCEPT !.ul = [st |-> "pre", host |-> h, pend |-> {}, err |-> None],
              !.log = FreshLog(g, g.ld)]

(* await piece.unload(bot) *)
unload(h) ==
    /\ calls < CallBudget
    /\ MayStart(ul)
    /\ BecomesWith(GatherPre(UnloadEnter(World, h), "unload"), Started("unload"))
    /\ calls' = calls + 1
    /\ ret' = NoRet
    /\ regs' = IF caller = "registers_anytime" THEN regs ELSE 0
    /\ UNCHANGED <<botKind, caller>>

SlotOf(call, st) ==
    IF call = "load"
    THEN (IF st = "pre" THEN "pre_load_hooks" ELSE "post_load_hooks")
    ELSE (IF st = "pre" THEN "pre_unload_hooks" ELSE "post_unload_hooks")

(* One hook of the phase a call is suspended in returns.  When it was the   *)
(* last one, gather completes and the call resumes.                         *)
HookReturns(call, i) ==
    LET c == IF call = "load" THEN "ld" ELSE "ul"
        r == World[c]
        g1 == [World EXCEPT ![c].pend = r.pend \ {i},
                            !.log = Append(@, [call |-> call, op |-> "hook_end",
                                               cat |-> SlotOf(call, r.st), x |-> i])]
    IN /\ InFlight(r)
       /\ i \in r.pend
       /\ BecomesWith(IF g1[c].pend # {} THEN g1
                      ELSE IF r.st = "pre" THEN Resume(g1, call)
                      ELSE Sync(g1, call), hist)
       /\ UNCHANGED <<botKind, ret, regs, calls, caller>>

HookRaisesSwallowed(call, i) ==
    LET c == IF call = "load" THEN "ld" ELSE "ul"
        r == World[c]
        g1 == [World EXCEPT ![c].pend = r.pend \ {i},
                            !.log = Append(@, [call |-> call, op |-> "hook_raise",
                                               cat |-> SlotOf(call, r.st), x |-> i])]
    IN /\ InFlight(r)
       /\ i \in r.pend
       /\ BecomesWith(IF g1[c].pend # {} THEN g1
                      ELSE IF r.st = "pre" THEN Resume(g1, call)
                      ELSE Sync(g1, call), hist)
       /\ UNCHANGED <<botKind, ret, regs, calls, caller>>

HookRaisesCancelling(call, i) ==
    LET c == IF call = "load" THEN "ld" ELSE "ul"
        r == World[c]
        slot == SlotOf(call, r.st)
    IN /\ InFlight(r)
       /\ i \in r.pend
       /\ Becomes([World EXCEPT
                     ![c] = [st |-> "err", host |-> r.host, pend |-> {},
                             err |-> "HookError"],
                     !.log = Append(@, [call |-> call, op |-> "hook_raise",
                                        cat |-> slot, x |-> i])])
       /\ UNCHANGED <<botKind, hist, ret, regs, calls, caller>>

(* One hook raises: gather raises at once in the call, which propagates it. *)
(* The hooks still running are not cancelled.                               *)
HookRaises(call, i) ==
    LET c == IF call = "load" THEN "ld" ELSE "ul"
        r == World[c]
        slot == SlotOf(call, r.st)
    IN /\ InFlight(r)
       /\ i \in r.pend
       /\ Becomes([World EXCEPT
                     ![c] = [st |-> "err", host |-> r.host, pend |-> {},
                             err |-> "HookError"],
                     !.orphans[slot] = @ + Cardinality(r.pend \ {i}),
                     !.log = Append(@, [call |-> call, op |-> "hook_raise",
                                        cat |-> slot, x |-> i])])
       /\ UNCHANGED <<botKind, hist, ret, regs, calls, caller>>

(* A hook left running by a failed gather ends; nobody awaits its result. *)
OrphanEnds(slot) ==
    /\ orphans[slot] > 0
    /\ orphans' = [orphans EXCEPT ![slot] = @ - 1]
    /\ UNCHANGED <<piece, objs, loopSt, botKind, host, ld, ul, log, hist, ret, regs, calls,
                   caller>>

(* The event loop delivers a requested cancellation: the loop's task ends. *)
LoopTaskEnds(l) ==
    /\ loopSt[l].task = "cancelled"
    /\ loopSt' = [loopSt EXCEPT ![l].task = None]
    /\ UNCHANGED <<piece, objs, botKind, host, ld, ul, orphans, log, hist, ret, regs, calls,
                   caller>>

(* The bot becomes ready: wait_until_ready() returns from then on. *)
BotReady ==
    /\ ~host.ready
    /\ host' = [host EXCEPT !.ready = TRUE]
    /\ UNCHANGED <<piece, objs, loopSt, botKind, ld, ul, orphans, log, hist, ret, regs, calls,
                   caller>>

BeforeLoopSkipsWait(l) == TRUE

(* The loop's before_loop callback has returned.  The one register_loop     *)
(* installs is: await self.bot.wait_until_ready()                           *)
BeforeLoopDone(l) ==
    loopSt[l].before_loop = "wait_until_ready" =>
        (bot(piece) # "RuntimeError" /\ host.ready)

(* The task of a started loop runs the loop's body for the first time,      *)
(* after its before_loop callback.                                          *)
LoopIterates(l) ==
    /\ loopSt[l].task = "running"
    /\ ~loopSt[l].ran
    /\ BeforeLoopDone(l)
    /\ loopSt' = [loopSt EXCEPT ![l].ran = TRUE]
    /\ UNCHANGED <<piece, objs, botKind, host, ld, ul, orphans, log, hist, ret, regs, calls,
                   caller>>

----------------------------------------------------------------------------
Next ==
    \/ \E n \in Names, own \in OwnChecks, coro \in BOOLEAN : command(n, own, coro)
    \/ \E n \in Names, own \in OwnChecks, coro \in BOOLEAN : group(n, own, coro)
    \/ \E n \in Names, own \in OwnChecks, coro \in BOOLEAN : slash_command(n, own, coro)
    \/ \E n \in Names, own \in OwnChecks, coro \in BOOLEAN : user_command(n, own, coro)
    \/ \E n \in Names, own \in OwnChecks, coro \in BOOLEAN : message_command(n, own, coro)
    \/ \E pr \in Preds : command_check(pr)
    \/ \E pr \in Preds : slash_command_check(pr)
    \/ \E pr \in Preds : message_command_check(pr)
    \/ \E pr \in Preds : user_command_check(pr)
    \/ \E pr \in Preds : global_command_check(pr)
    \/ \E pr \in Preds : global_command_check_once(pr)
    \/ \E pr \in Preds : global_application_command_check(pr)
    \/ \E pr \in Preds : global_slash_command_check(pr)
    \/ \E pr \in Preds : global_message_command_check(pr)
    \/ \E pr \in Preds : global_user_command_check(pr)
    \/ \E e \in {None, "on_x"}, f \in Callables : listener(e, f)
    \/ \E l \in LoopIds, wait \in BOOLEAN : register_loop(l, wait)
    \/ \E post \in BOOLEAN, f \in HookFns : load_hook(post, f)
    \/ \E post \in BOOLEAN, f \in HookFns : unload_hook(post, f)
    \/ load(TheBot)
    \/ unload(TheBot)
    \/ \E call \in {"load", "unload"}, i \in 1..MaxRegs : HookReturns(call, i)
    \/ \E call \in {"load", "unload"}, i \in 1..MaxRegs : HookRaises(call, i)
    \/ \E slot \in HookSlots : OrphanEnds(slot)
    \/ \E l \in LoopIds : LoopTaskEnds(l)

Spec == Init /\ [][Next]_vars

(* A caller that also registers after load and unload calls, as code that   *)
(* holds the piece may: the decorators stay usable for the piece's life.    *)
InitLate ==
    /\ Constructed
    /\ regs = MaxRegs
    /\ caller = "registers_anytime"

NextLate ==
    \/ \E n \in {"b"} : command(n, <<>>, TRUE)
    \/ \E n \in {"b"} : group(n, <<>>, TRUE)
    \/ \E n \in {"b"} : slash_command(n, <<>>, TRUE)
    \/ \E n \in {"b"} : user_command(n, <<>>, TRUE)
    \/ \E n \in {"b"} : message_command(n, <<>>, TRUE)
    \/ \E pr \in {"p"} : command_check(pr)
    \/ \E pr \in {"p"} : slash_command_check(pr)
    \/ \E pr \in {"p"} : message_command_check(pr)
    \/ \E pr \in {"p"} : user_command_check(pr)
    \/ \E pr \in {"p"} : global_command_check(pr)
    \/ \E pr \in {"p"} : global_command_check_once(pr)
    \/ \E pr \in {"p"} : global_application_command_check(pr)
    \/ \E pr \in {"p"} : global_slash_command_check(pr)
    \/ \E pr \in {"p"} : global_message_command_check(pr)
    \/ \E pr \in {"p"} : global_user_command_check(pr)
    \/ \E f \in {"f"} : listener(None, f)
    \/ \E wait \in BOOLEAN : register_loop("l1", wait)
    \/ \E post \in BOOLEAN, f \in HookFns : load_hook(post, f)
    \/ \E post \in BOOLEAN, f \in HookFns : unload_hook(post, f)
    \/ load(TheBot)
    \/ unload(TheBot)
    \/ \E call \in {"load", "unload"}, i \in 1..MaxRegs : HookReturns(call, i)
    \/ \E call \in {"load", "unload"}, i \in 1..MaxRegs : HookRaises(call, i)
    \/ \E slot \in HookSlots : OrphanEnds(slot)
    \/ \E l \in LoopIds : LoopTaskEnds(l)

SpecLate == InitLate /\ [][NextLate]_vars

(* The registrars alone, given coroutine functions and plain functions. *)
InitCallables ==
    /\ Constructed
    /\ regs = MaxRegs
    /\ caller = "registers_first"

NextCallables ==
    \/ \E n \in Names, coro \in BOOLEAN : command(n, <<>>, coro)
    \/ \E n \in Names, coro \in BOOLEAN : group(n, <<>>, coro)
    \/ \E n \in Names, coro \in BOOLEAN : slash_command(n, <<>>, coro)
    \/ \E n \in Names, coro \in BOOLEAN : user_command(n, <<>>, coro)
    \/ \E n \in Names, coro \in BOOLEAN : message_command(n, <<>>, coro)
    \/ \E e \in {None, "on_x"}, f \in Callables \cup NonCoro : listener(e, f)
    \/ \E l \in LoopIds, wait \in BOOLEAN : register_loop(l, wait)
    \/ \E post \in BOOLEAN, f \in HookFns \cup NonCoro : load_hook(post, f)
    \/ \E post \in BOOLEAN, f \in HookFns \cup NonCoro : unload_hook(post, f)

SpecCallables == InitCallables /\ [][NextCallables]_vars

(* A caller that starts unload while load is suspended, or the reverse, on  *)
(* a piece with a pre-load hook, a command, a listener and a loop.          *)
InitRace ==
    /\ Constructed
    /\ regs = MaxRaceRegs
    /\ caller = "overlaps_calls"

NextRace ==
    \/ \E n \in {"b"} : slash_command(n, <<>>, TRUE)
    \/ \E f \in {"f"} : listener(None, f)
    \/ \E l \in {"l1"} : register_loop(l, FALSE)
    \/ \E f \in HookFns : load_hook(FALSE, f)
    \/ load(TheBot)
    \/ unload(TheBot)
    \/ \E call \in {"load", "unload"}, i \in 1..(MaxRaceRegs + 1) : HookReturns(call, i)
    \/ \E l \in LoopIds : LoopTaskEnds(l)

SpecRace == InitRace /\ [][NextRace]_vars

(* A caller that loads and unloads the same piece again and again: up to    *)
(* MaxCycleCalls calls, each awaited, on a piece of slash commands, checks, *)
(* a listener and a loop.                                                   *)
InitCycles ==
    /\ Constructed
    /\ regs = MaxRegs
    /\ caller = "reloads"

NextCycles ==
    \/ \E n \in {"b"}, own \in OwnChecks : slash_command(n, own, TRUE)
    \/ \E pr \in {"p"} : slash_command_check(pr)
    \/ \E pr \in {"p"} : global_application_command_check(pr)
    \/ \E f \in {"f"} : listener(None, f)
    \/ \E l \in {"l1"} : register_loop(l, FALSE)
    \/ load(TheBot)
    \/ unload(TheBot)
    \/ \E l \in LoopIds : LoopTaskEnds(l)

SpecCycles == InitCycles /\ [][NextCycles]_vars

(* A piece of listeners only, registered by up to MaxListenerRegs calls. *)
InitListeners ==
    /\ Constructed
    /\ regs = MaxListenerRegs
    /\ caller = "registers_first"

NextListeners ==
    \/ \E e \in {None} \cup Events, f \in Callables : listener(e, f)
    \/ load(TheBot)
    \/ unload(TheBot)

SpecListeners == InitListeners /\ [][NextListeners]_vars

(* A piece of loops and load hooks, on a bot that may become ready or not,  *)
(* with the tasks of the started loops running.                             *)
InitLoops ==
    /\ Constructed
    /\ regs = MaxRegs
    /\ caller = "registers_first"

NextLoops ==
    \/ \E l \in LoopIds, wait \in BOOLEAN : register_loop(l, wait)
    \/ \E post \in BOOLEAN, f \in HookFns : load_hook(post, f)
    \/ load(TheBot)
    \/ unload(TheBot)
    \/ \E call \in {"load", "unload"}, i \in 1..MaxRegs : HookReturns(call, i)
    \/ BotReady
    \/ \E l \in LoopIds : LoopIterates(l)
    \/ \E l \in LoopIds : LoopTaskEnds(l)

SpecLoops == InitLoops /\ [][NextLoops]_vars

----------------------------------------------------------------------------
(* Reading the log *)

AttachOps == {"add", "prepend", "add_check", "add_listener", "start"}

IsLoadStep(e) == e.call = "load" /\ e.op \in AttachOps

(* The position of a step's category in load *)
Rank(e) ==
    CASE e.cat = "all_commands" -> 1
      [] e.cat = "global_command_checks" -> 2
      [] e.cat = "global_command_once_checks" -> 3
      [] e.cat = "global_application_command_checks" -> 4
      [] e.cat = "all_slash_commands" -> 5
      [] e.cat = "global_slash_command_checks" -> 6
      [] e.cat = "all_user_commands" -> 7
      [] e.cat = "global_user_command_checks" -> 8
      [] e.cat = "all_message_commands" -> 9
      [] e.cat = "global_message_command_checks" -> 10
      [] e.cat = "listeners" -> 11
      [] e.cat = "loops" -> 12

LogIdx == 1..Len(log)

IsHook(e, call, op, slot) == e.call = call /\ e.op = op /\ e.cat = slot

CountOp(op, upto) == Cardinality({j \in 1..upto : log[j].call = "load" /\ log[j].op = op})

LastCall == IF hist.order = <<>> THEN None ELSE hist.order[Len(hist.order)]

AppSlots ==
    << [cmds |-> "slash_commands", checks |-> "slash_command_checks"],
       [cmds |-> "user_commands", checks |-> "user_command_checks"],
       [cmds |-> "message_commands", checks |-> "message_command_checks"] >>

----------------------------------------------------------------------------
(* C1.  As stated: after a successful load every command of every          *)
(* namespace, the ordinary one included, carries its namespace's category  *)
(* checks followed by the checks it carried before load.                   *)
C1_AllNamespaces ==
    ld.st = "ok" =>
        \A i \in 1..Len(piece.commands) :
            objs[piece.commands[i].id].checks =
                piece.command_checks \o hist.checks[piece.commands[i].id]

(* C1, amended.  After a successful load every slash, user and message     *)
(* command carries its own namespace's category checks, in registration    *)
(* order, followed by the checks it carried before load; an ordinary       *)
(* command carries [category checks, own checks] once load has attached    *)
(* it, which happens on a prefix-capable bot only, and is left as it was   *)
(* by a load on any other bot.                                             *)
C1_CheckComposition ==
    /\ ld.st = "ok" =>
         \A s \in 1..Len(AppSlots) : \A i \in 1..Len(piece[AppSlots[s].cmds]) :
             LET c == piece[AppSlots[s].cmds][i]
             IN objs[c.id].checks = piece[AppSlots[s].checks] \o hist.checks[c.id]
    /\ \A k \in LogIdx :
         (log[k].call = "load" /\ log[k].op = "add" /\ log[k].cat = "all_commands") =>
             /\ IsBotBase(botKind)
             /\ objs[log[k].x].checks = piece.command_checks \o hist.checks[log[k].x]
    /\ (ld.st = "ok" /\ ~IsBotBase(botKind)) =>
         \A i \in 1..Len(piece.commands) :
             objs[piece.commands[i].id].checks = hist.checks[piece.commands[i].id]

C1_Witness ==
    /\ ld.st = "ok"
    /\ piece.slash_command_checks # <<>>
    /\ \E i \in 1..Len(piece.slash_commands) :
         LET c == piece.slash_commands[i]
         IN /\ hist.checks[c.id] # <<>>
            /\ objs[c.id].checks = piece.slash_command_checks \o hist.checks[c.id]

(* C2.  load(bot) then unload(bot), neither stopped by a hook and no attach *)
(* rejected by the bot, leaves the bot's command, check and listener tables *)
(* as they were when load began, and no loop running.                       *)
LoadThenUnload ==
    /\ Len(hist.order) >= 2
    /\ hist.order[Len(hist.order) - 1] = "load"
    /\ hist.order[Len(hist.order)] = "unload"
    /\ ~InFlight(ul)
    /\ ld.err \notin {"HookError", "CommandRegistrationError"}
    /\ ul.err # "HookError"

C2_RoundTrip ==
    LoadThenUnload =>
        /\ host = hist.tables
        /\ \A l \in LoopIds : loopSt[l].task # "running"

C2_Witness ==
    /\ LoadThenUnload
    /\ ld.st = "ok" /\ ul.st = "ok"
    /\ piece.slash_commands # <<>>
    /\ piece.loops # <<>> \/ piece.listeners # <<>>
    /\ \E k \in LogIdx : log[k].op = "remove"
    /\ host = hist.tables

(* C3.  When a pre-load hook raises, load ends with that error and has      *)
(* done nothing after the pre-load phase: the bot's tables and the command  *)
(* checks are as load found them, no loop was started, no post-load hook    *)
(* was invoked and no sync was signalled.                                   *)
C3_PreLoadHookAborts ==
    \A k \in LogIdx :
        IsHook(log[k], "load", "hook_raise", "pre_load_hooks") =>
            /\ ld.st = "err" /\ ld.err = "HookError"
            /\ host = hist.tables
            /\ \A i \in 1..Len(objs) : objs[i].checks = hist.checks[i]
            /\ \A j \in LogIdx :
                 /\ log[j].op \notin AttachOps \cup {"sync"}
                 /\ ~IsHook(log[j], "load", "hook_start", "post_load_hooks")

C3_Witness ==
    /\ \E k \in LogIdx : IsHook(log[k], "load", "hook_raise", "pre_load_hooks")
    /\ ld.st = "err"
    /\ piece.slash_commands # <<>> \/ piece.loops # <<>> \/ piece.listeners # <<>>

(* C4.  As stated: get_parent_piece returns the piece for every command a   *)
(* registrar of the piece created.                                          *)
ThePiece == "piece"

C4_OwnerOfRegistered ==
    \A i \in 1..Len(objs) : get_parent_piece(objs[i]) = ThePiece

(* C5.  As stated, in its own example: after a load that a pre-load hook    *)
(* failed, and no successful load, reading the bot raises.                  *)
C5_UnsetAfterFailedLoad ==
    (ld.st = "err" /\ ld.err = "HookError" /\ ~hist.loaded) =>
        bot(piece) = "RuntimeError"

(* C5, amended.  Reading the bot raises until load is first called; from    *)
(* the moment load(bot) is called, while it runs and after it has returned, *)
(* normally or with an error, the bot property is that bot.                 *)
LoadCalled == \E i \in 1..Len(hist.order) : hist.order[i] = "load"

C5_BotSetByLoadCall ==
    /\ ~LoadCalled => bot(piece) = "RuntimeError"
    /\ LoadCalled => bot(piece) = TheBot

C5_Witness ==
    /\ ld.st = "err" /\ ld.err = "HookError"
    /\ ~hist.loaded
    /\ bot(piece) = TheBot

(* C6.  The ordinary-command mapping holds one entry per name, the command  *)
(* registered last under it, and a command load puts on the bot is the      *)
(* entry the mapping holds: a command that was overwritten is never         *)
(* attached.                                                                *)
IsOrdinary(o) == o.kind \in {"command", "group"}

C6_OverwriteByName ==
    /\ \A i, j \in 1..Len(piece.commands) :
         piece.commands[i].name = piece.commands[j].name => i = j
    /\ \A i \in 1..Len(piece.commands) :
         LET c == piece.commands[i]
         IN /\ IsOrdinary(objs[c.id]) /\ objs[c.id].name = c.name
            /\ \A k \in 1..Len(objs) :
                 (IsOrdinary(objs[k]) /\ objs[k].name = c.name) => k <= c.id
    /\ \A n \in Names :
         host.all_commands[n] \in {NoCmd, Foreign}
            \/ \E i \in 1..Len(piece.commands) :
                 piece.commands[i] = [name |-> n, id |-> host.all_commands[n]]

C6_Witness ==
    \E k1, k2 \in 1..Len(objs) :
        /\ k1 < k2
        /\ IsOrdinary(objs[k1]) /\ IsOrdinary(objs[k2])
        /\ objs[k1].name = objs[k2].name
        /\ host.all_commands[objs[k2].name] = k2
        /\ Len(piece.commands) = 1

(* C7.  register_loop(wait_until_ready=True) on a loop that already has a   *)
(* before_loop callback, the user's or one an earlier registration          *)
(* installed, raises TypeError and leaves the loop's callback and the       *)
(* piece's loops as they were; no step replaces an existing callback.       *)
C7_ReadyGuardOnce ==
    [][ \A l \in LoopIds :
          /\ loopSt[l].before_loop # None =>
                loopSt'[l].before_loop = loopSt[l].before_loop
          /\ (ret'.op = "register_loop" /\ ret'.x = l /\ regs' = regs - 1
                 /\ loopSt[l].before_loop # None) =>
                (ret'.res = "TypeError" /\ piece' = piece /\ loopSt' = loopSt) ]_vars

C7_Witness ==
    /\ ret.op = "register_loop" /\ ret.res = "TypeError"
    /\ \E l \in LoopIds :
         /\ ret.x = l
         /\ loopSt[l].before_loop = "wait_until_ready"
         /\ piece.loops = <<l>>

(* C8.  Within one load the steps on the bot follow the order of load's     *)
(* categories: ordinary commands, global prefix checks, call-once checks,   *)
(* omnibus application checks, slash commands, slash checks, user commands, *)
(* user checks, message commands, message checks, listeners, loop starts;   *)
(* and each command's attach is followed at once by its check prepend.      *)
C8_LoadOrder ==
    /\ \A i, j \in LogIdx :
         (i < j /\ IsLoadStep(log[i]) /\ IsLoadStep(log[j])) =>
             Rank(log[i]) <= Rank(log[j])
    /\ \A i \in LogIdx :
         (log[i].call = "load" /\ log[i].op = "add") =>
             /\ i + 1 <= Len(log)
             /\ log[i + 1].op = "prepend"
             /\ log[i + 1].cat = log[i].cat
             /\ log[i + 1].x = log[i].x

C8_Witness ==
    \E i, j \in LogIdx :
        /\ i < j
        /\ IsLoadStep(log[i]) /\ IsLoadStep(log[j])
        /\ log[i].op = "add"
        /\ Rank(log[i]) < Rank(log[j])

(* C9.  Every pre-load hook has returned before load's first step on the    *)
(* bot, and a post-load hook is started only after every command, check and *)
(* listener of the piece was attached and every loop started.               *)
RECURSIVE SumLens(_, _)
SumLens(p, slots) ==
    IF slots = <<>> THEN 0 ELSE Len(p[Head(slots)]) + SumLens(p, Tail(slots))

RECURSIVE SumFns(_)
SumFns(ls) == IF ls = <<>> THEN 0 ELSE Len(Head(ls).fns) + SumFns(Tail(ls))

ExpectedAdds ==
    SumLens(piece, <<"slash_commands", "user_commands", "message_commands">>)
      + (IF IsBotBase(botKind) THEN Len(piece.commands) ELSE 0)

ExpectedChecks ==
    SumLens(piece, <<"global_application_command_checks", "global_slash_command_checks",
                     "global_user_command_checks", "global_message_command_checks">>)
      + (IF IsBotBase(botKind) THEN Len(piece.global_command_checks) ELSE 0)

SyncsOf(call) == {k \in LogIdx : log[k].call = call /\ log[k].op = "sync"}

C10_SyncOnce ==
    /\ (LastCall = "load" /\ ld.st = "ok") =>
         /\ SyncsOf("load") = {Len(log)}
         /\ \A n \in 1..Len(piece.post_load_hooks) :
              \E k \in LogIdx :
                  IsHook(log[k], "load", "hook_end", "post_load_hooks") /\ log[k].x = n
    /\ (LastCall = "load" /\ ld.st # "ok") => SyncsOf("load") = {}

C10_Witness ==
    /\ LastCall = "load" /\ ld.st = "ok"
    /\ piece.post_load_hooks # <<>>
    /\ SyncsOf("load") = {Len(log)}

(* Reading the log of an unload *)
DetachOps == {"remove", "remove_check", "remove_listener", "cancel"}

IsUnloadStep(e) == e.call = "unload" /\ e.op \in DetachOps

(* C11.  As stated: unload walks the categories in the reverse of load's    *)
(* order, so of two steps of one unload the earlier one never belongs to an *)
(* earlier category of load than the later one.                             *)
C11_UnloadReverseOrder ==
    \A i, j \in LogIdx :
        (i < j /\ IsUnloadStep(log[i]) /\ IsUnloadStep(log[j])) =>
            Rank(log[i]) >= Rank(log[j])

(* C11, amended.  unload detaches the categories in the same order in which *)
(* load attaches them: ordinary commands, global prefix checks, omnibus     *)
(* application checks, slash commands, slash checks, user commands, user    *)
(* checks, message commands, message checks, listeners, loops.              *)
C11_UnloadSameOrder ==
    \A i, j \in LogIdx :
        (i < j /\ IsUnloadStep(log[i]) /\ IsUnloadStep(log[j])) =>
            Rank(log[i]) <= Rank(log[j])

C11_Witness ==
    \E i, j \in LogIdx :
        /\ i < j
        /\ IsUnloadStep(log[i]) /\ IsUnloadStep(log[j])
        /\ Rank(log[i]) < Rank(log[j])
        /\ ul.st = "ok"

(* C12.  As stated: an unload in which no hook raised has gone through all  *)
(* its phases in order: every pre-unload hook returned before the first     *)
(* detach, no loop was cancelled before the last detach, every loop was     *)
(* cancelled before the first post-unload hook started, and sync was        *)
(* signalled exactly once, last, after every post-unload hook returned.     *)
UnloadEnded == LastCall = "unload" /\ ul.st \in {"ok", "err"}

NoHookRaised == \A k \in LogIdx : log[k].op # "hook_raise"

CountUnloadOp(op, upto) ==
    Cardinality({j \in 1..upto : log[j].call = "unload" /\ log[j].op = op})

C12_UnloadPhases ==
    (UnloadEnded /\ NoHookRaised) =>
        /\ \A j \in LogIdx :
             IsUnloadStep(log[j]) =>
                 \A n \in 1..Len(piece.pre_unload_hooks) :
                     \E k \in 1..(j - 1) :
                         IsHook(log[k], "unload", "hook_end", "pre_unload_hooks")
                             /\ log[k].x = n
        /\ \A i, j \in LogIdx :
             (IsUnloadStep(log[i]) /\ log[i].op = "cancel"
                 /\ IsUnloadStep(log[j]) /\ log[j].op # "cancel") => j < i
        /\ \A k \in LogIdx :
             IsHook(log[k], "unload", "hook_start", "post_unload_hooks") =>
                 CountUnloadOp("cancel", k) = Len(piece.loops)
        /\ CountUnloadOp("cancel", Len(log)) = Len(piece.loops)
        /\ SyncsOf("unload") = {Len(log)}
        /\ \A n \in 1..Len(piece.post_unload_hooks) :
             \E k \in LogIdx :
                 IsHook(log[k], "unload", "hook_end", "post_unload_hooks") /\ log[k].x = n

(* C13.  Once load was called, the bot property still reads that bot during *)
(* and after every later unload: while unload waits for its pre-unload or   *)
(* post-unload hooks, and when it has returned, normally or with an error.  *)
C13_UnloadKeepsBot ==
    (LoadCalled /\ LastCall = "unload") =>
        /\ piece.bot = TheBot
        /\ bot(piece) # "RuntimeError"

C13_Witness ==
    /\ LoadCalled /\ LastCall = "unload"
    /\ ul.st = "post" /\ ul.pend # {}
    /\ hist.loaded
    /\ bot(piece) = TheBot

(* C14.  When the bot rejects a command part-way through load, load ends    *)
(* with the bot's CommandRegistrationError; what it attached before is      *)
(* still on the bot; and it started no loop, invoked no post-load hook and  *)
(* signalled no sync.                                                       *)
CheckTables(cat) ==
    CASE cat = "global_command_checks" -> <<"checks">>
      [] cat = "global_command_once_checks" -> <<"check_once">>
      [] cat = "global_application_command_checks" -> AllApp
      [] cat = "global_slash_command_checks" -> <<"slash_command_checks">>
      [] cat = "global_user_command_checks" -> <<"user_command_checks">>
      [] cat = "global_message_command_checks" -> <<"message_command_checks">>

InSeq(x, seq) == \E i \in 1..Len(seq) : seq[i] = x

(* A slash command of the piece has a name the bot held when load began. *)
SlashNameHeld ==
    \E i \in 1..Len(piece.slash_commands) :
        hist.tables.all_slash_commands[piece.slash_commands[i].name] # NoCmd

C14_RejectionPropagates ==
    /\ (LastCall = "load" /\ ~IsBotBase(botKind) /\ SlashNameHeld
           /\ ld.st # "pre" /\ ld.err # "HookError") =>
          (ld.st = "err" /\ ld.err = "CommandRegistrationError")
    /\ (LastCall = "load" /\ ld.err = "CommandRegistrationError") =>
          /\ ld.st = "err"
          /\ \A k \in LogIdx :
               /\ log[k].op = "add" => host[log[k].cat][objs[log[k].x].name] = log[k].x
               /\ log[k].op = "add_check" =>
                     \A t \in 1..Len(CheckTables(log[k].cat)) :
                         InSeq(log[k].x, host[CheckTables(log[k].cat)[t]])
               /\ log[k].op \notin {"start", "sync", "add_listener"}
               /\ ~IsHook(log[k], "load", "hook_start", "post_load_hooks")

C14_Witness ==
    /\ LastCall = "load"
    /\ ld.st = "err" /\ ld.err = "CommandRegistrationError"
    /\ Len(piece.slash_commands) = 2
    /\ \E k \in LogIdx :
         log[k].op = "add" /\ host[log[k].cat][objs[log[k].x].name] = log[k].x

(* C15.  As stated: an unload of a piece that was never loaded, in which no *)
(* hook raised, returns normally and leaves the bot's command, check and    *)
(* listener tables as they were.                                            *)
C15_UnloadUnattachedNoop ==
    (~LoadCalled /\ UnloadEnded /\ NoHookRaised) =>
        /\ ul.st = "ok"
        /\ host = BotTables(TRUE)

(* C16.  A registrar call, whenever it is made (before the first load,     *)
(* after an unload, or while the piece is loaded), changes nothing of the   *)
(* bot: its command, check and listener tables stay as they are, no loop    *)
(* task is started or stopped, and no call on the bot is made.              *)
RegistrarStep == regs' = regs - 1 /\ calls' = calls

C16_RegistrationLeavesHost ==
    [][ RegistrarStep =>
          /\ host' = host
          /\ log' = log
          /\ ld' = ld /\ ul' = ul
          /\ \A l \in LoopIds : loopSt'[l].task = loopSt[l].task ]_vars

C16_Witness ==
    /\ LastCall = "load" /\ ld.st = "ok" /\ hist.loaded
    /\ piece.slash_commands # <<>>
    /\ \A n \in Names : host.all_slash_commands[n] \in {NoCmd, Foreign}
    /\ regs < MaxRegs

(* C17.  As stated: every check registrar, the call-once one included,     *)
(* returns normally and appends the predicate to its own sequence, leaving  *)
(* the rest of the piece as it was.                                         *)
CheckSlots ==
    {"command_checks", "slash_command_checks", "message_command_checks",
     "user_command_checks", "global_command_checks", "global_command_once_checks",
     "global_application_command_checks", "global_slash_command_checks",
     "global_message_command_checks", "global_user_command_checks"}

C17_EveryCheckRegistrarAppends ==
    [][ \A slot \in CheckSlots :
          (RegistrarStep /\ ret'.op = "check" /\ ret'.x = slot) =>
              /\ ret'.res = "ok"
              /\ HasAttr(piece, slot)
              /\ \E pr \in Preds : piece' = [piece EXCEPT ![slot] = Append(@, pr)] ]_vars

(* C18.  As stated: a load on a prefix-capable bot that no hook and no      *)
(* rejected command stopped returns normally, and then every global check   *)
(* of the piece is in the bot's table of its kind: plain in checks,         *)
(* call-once in check_once, omnibus in all three application tables,        *)
(* slash, user and message each in its own.                                 *)
AllIn(preds, tbl) == \A i \in 1..Len(preds) : InSeq(preds[i], tbl)

C18_GlobalChecksOnPrefixHost ==
    (LastCall = "load" /\ IsBotBase(botKind) /\ ld.st \in {"ok", "err"}
        /\ ld.err \notin {"HookError", "CommandRegistrationError", "RuntimeError"}) =>
        /\ ld.st = "ok"
        /\ AllIn(piece.global_command_checks, host.checks)
        /\ HasAttr(piece, "global_command_once_checks")
        /\ AllIn(piece.global_command_once_checks, host.check_once)
        /\ \A t \in 1..Len(AllApp) :
             AllIn(piece.global_application_command_checks, host[AllApp[t]])
        /\ AllIn(piece.global_slash_command_checks, host.slash_command_checks)
        /\ AllIn(piece.global_user_command_checks, host.user_command_checks)
        /\ AllIn(piece.global_message_command_checks, host.message_command_checks)

(* The (event, listener) pairs the current call put on the bot, in order *)
IsAddListener(e) == e.call = "load" /\ e.op = "add_listener"

RECURSIVE PairsOf(_)
PairsOf(lg) ==
    IF lg = <<>> THEN <<>>
    ELSE (IF IsAddListener(Head(lg)) THEN <<Head(lg).x>> ELSE <<>>) \o PairsOf(Tail(lg))

AttachedListeners == PairsOf(log)

RECURSIVE OfEvent(_, _)
OfEvent(pairs, e) ==
    IF pairs = <<>> THEN <<>>
    ELSE (IF Head(pairs)[1] = e THEN <<Head(pairs)>> ELSE <<>>) \o OfEvent(Tail(pairs), e)

FirstOf(pairs, e) == CHOOSE i \in 1..Len(pairs) :
                        pairs[i][1] = e /\ \A j \in 1..(i - 1) : pairs[j][1] # e

(* C19.  As stated: a load that returned normally has attached the          *)
(* listeners in the order in which the (event, listener) pairs were         *)
(* registered.                                                              *)
C19_RegistrationOrder ==
    (LastCall = "load" /\ ld.st = "ok") => AttachedListeners = hist.listeners

(* C19, amended.  load attaches the listeners grouped by event name: the    *)
(* event names in the order of their first registration, and all listeners  *)
(* of one event name together, in their registration order.                 *)
C19_GroupedByEvent ==
    (LastCall = "load" /\ ld.st = "ok") =>
        LET att == AttachedListeners
        IN /\ Len(att) = Len(hist.listeners)
           /\ \A e \in Events : OfEvent(att, e) = OfEvent(hist.listeners, e)
           /\ \A i, j \in 1..Len(att) :
                (i < j /\ att[i][1] # att[j][1]) =>
                    /\ FirstOf(hist.listeners, att[i][1]) < FirstOf(hist.listeners, att[j][1])
                    /\ \A k \in j..Len(att) : att[k][1] # att[i][1]

C19_Witness ==
    /\ LastCall = "load" /\ ld.st = "ok"
    /\ Len(hist.listeners) = 3
    /\ hist.listeners[1][1] = hist.listeners[3][1]
    /\ hist.listeners[1][1] # hist.listeners[2][1]
    /\ hist.listeners[1][2] # hist.listeners[3][2]
    /\ AttachedListeners =
          <<hist.listeners[1], hist.listeners[3], hist.listeners[2]>>

(* C20.  The body of a loop registered with wait_until_ready runs for the   *)
(* first time only when the bot is ready; and load is never suspended on    *)
(* anything but its own hooks, so it returns while the bot is not ready     *)
(* and the loop's task still waits.                                         *)
Guarded(l) == loopSt[l].before_loop = "wait_until_ready"

C20_ReadyGuard ==
    /\ [](InFlight(ld) => ld.pend # {})
    /\ []((LastCall = "load" /\ ~IsBotBase(botKind)
             /\ piece.pre_load_hooks = <<>> /\ piece.post_load_hooks = <<>>) =>
               ld.st \in {"ok", "err"})
    /\ [][ \A l \in LoopIds :
              (Guarded(l) /\ ~loopSt[l].ran /\ loopSt'[l].ran) => host.ready ]_vars

C20_Witness ==
    /\ LastCall = "load" /\ ld.st = "ok"
    /\ ~host.ready
    /\ \E l \in LoopIds :
         Guarded(l) /\ loopSt[l].task = "running" /\ ~loopSt[l].ran

(* C21.  As stated: no registrar stores a callable that is not a coroutine  *)
(* function: a command registrar given one raises TypeError and stores      *)
(* nothing, and so do the listener and the hook registrars, so that the     *)
(* piece holds coroutine functions only.                                    *)
C21_NonCoroutineRejected ==
    /\ ret.res = "TypeError" => ret.op \in {"command", "register_loop"}
    /\ \A i \in 1..Len(piece.listeners) :
         \A j \in 1..Len(piece.listeners[i].fns) :
             IsCoroutineFunction(piece.listeners[i].fns[j])
    /\ \A slot \in HookSlots : \A i \in 1..Len(piece[slot]) :
         IsCoroutineFunction(piece[slot][i])

(* C22.  Nothing keeps unload from running while load is suspended in its   *)
(* pre-load hooks: when an unload has run to its sync inside a load, that   *)
(* load still goes on once its hooks have returned, after every detach step *)
(* of the unload, and when it has ended both calls have returned normally,  *)
(* unload was called last, and the piece's commands and listeners are on    *)
(* the bot and its loops running.  (On a bot that is not a BotBase, with no *)
(* loop registered twice, the load being the piece's first call: otherwise  *)
(* load ends at the unassigned slot or at the start of a loop whose task is *)
(* not done.)                                                               *)
UnloadRanInsideLoad ==
    \E i, j \in LogIdx :
        /\ i < j
        /\ log[i].call = "unload" /\ log[i].op = "sync"
        /\ IsHook(log[j], "load", "hook_end", "pre_load_hooks")

NoLoopTwice ==
    \A i, j \in 1..Len(piece.loops) : piece.loops[i] = piece.loops[j] => i = j

C22_UnloadOvertakesLoad ==
    (/\ UnloadRanInsideLoad /\ ~InFlight(ld)
     /\ hist.order[1] = "load" /\ \A k \in 2..Len(hist.order) : hist.order[k] = "unload"
     /\ ~IsBotBase(botKind) /\ NoLoopTwice) =>
        /\ ld.st = "ok" /\ ul.st = "ok"
        /\ LastCall = "unload"
        /\ \A i, j \in LogIdx :
             (IsUnloadStep(log[i]) /\ IsLoadStep(log[j])) => i < j
        /\ \A i \in 1..Len(piece.slash_commands) :
             host.all_slash_commands[piece.slash_commands[i].name] =
                 piece.slash_commands[i].id
        /\ \A i \in 1..Len(piece.listeners) :
             AllIn(piece.listeners[i].fns, host.extra_events[piece.listeners[i].event])
        /\ \A i \in 1..Len(piece.loops) : loopSt[piece.loops[i]].task = "running"

C22_Witness ==
    /\ UnloadRanInsideLoad
    /\ ld.st = "ok" /\ ul.st = "ok"
    /\ LastCall = "unload"
    /\ hist.order = <<"load", "unload">>
    /\ \E i \in 1..Len(piece.slash_commands) :
         host.all_slash_commands[piece.slash_commands[i].name] = piece.slash_commands[i].id
    /\ \E i \in 1..Len(piece.listeners) :
         InSeq(piece.listeners[i].fns[1], host.extra_events[piece.listeners[i].event])
    /\ \E i \in 1..Len(piece.loops) : loopSt[piece.loops[i]].task = "running"

(* C23.  As stated: after a load that returned normally every registered    *)
(* command still carries exactly the checks it had before the load.         *)
C23_EntryKeepsChecks ==
    (LastCall = "load" /\ ld.st = "ok") =>
        \A i \in 1..Len(objs) : objs[i].checks = hist.checks[i]

(* C23, amended.  No step of load or unload changes a check sequence of the *)
(* piece; but the command load puts on the bot is the very object the piece *)
(* holds, and load replaces that object's check list by the category checks *)
(* followed by the checks it had: the entry held by the piece carries the   *)
(* prefixed list after load.                                                *)
TableOf(cmds) ==
    CASE cmds = "slash_commands" -> "all_slash_commands"
      [] cmds = "user_commands" -> "all_user_commands"
      [] cmds = "message_commands" -> "all_message_commands"

LifecycleStep == calls' # calls \/ ld' # ld \/ ul' # ul

C23_LoadMutatesEntry ==
    /\ [][ LifecycleStep =>
              \A slot \in CheckSlots \cap DOMAIN piece : piece'[slot] = piece[slot] ]_vars
    /\ []((LastCall = "load" /\ ld.st = "ok") =>
            \A s \in 1..Len(AppSlots) : \A i \in 1..Len(piece[AppSlots[s].cmds]) :
                LET c == piece[AppSlots[s].cmds][i]
                    cat == piece[AppSlots[s].checks]
                IN /\ host[TableOf(AppSlots[s].cmds)][c.name] = c.id
                   /\ objs[c.id].checks = cat \o hist.checks[c.id]
                   /\ cat # <<>> => objs[c.id].checks # hist.checks[c.id])

C23_Witness ==
    /\ LastCall = "load" /\ ld.st = "ok"
    /\ \E i \in 1..Len(piece.user_commands) :
         LET c == piece.user_commands[i]
         IN /\ host.all_user_commands[c.name] = c.id
            /\ piece.user_command_checks # <<>>
            /\ objs[c.id].checks # hist.checks[c.id]

(* C24.  As stated: after any load that returned normally, also one that    *)
(* follows earlier load and unload calls, a slash command's check list is   *)
(* the category checks, once, followed by the command's own checks.         *)
RECURSIVE OwnPart(_)
OwnPart(seq) ==
    IF seq = <<>> THEN <<>>
    ELSE (IF Head(seq) \in Preds THEN <<>> ELSE <<Head(seq)>>) \o OwnPart(Tail(seq))

C24_ChecksAppliedOnce ==
    (LastCall = "load" /\ ld.st = "ok") =>
        \A i \in 1..Len(piece.slash_commands) :
            LET c == piece.slash_commands[i]
            IN objs[c.id].checks =
                   piece.slash_command_checks \o OwnPart(objs[c.id].checks)

(* C25.  When a hook raises, the call ends at once with that error, and    *)
(* every other hook of the phase that had not returned yet is left running: *)
(* none is cancelled, and each can still end after the call has ended.      *)
FailsByHook(c1, c2) == InFlight(c1) /\ c2.st = "err" /\ c2.err = "HookError"

C25_SiblingsNotCancelled ==
    [][ /\ FailsByHook(ld, ld') =>
             /\ orphans'[SlotOf("load", ld.st)] =
                    orphans[SlotOf("load", ld.st)] + Cardinality(ld.pend) - 1
             /\ host' = host /\ loopSt' = loopSt
        /\ FailsByHook(ul, ul') =>
             /\ orphans'[SlotOf("unload", ul.st)] =
                    orphans[SlotOf("unload", ul.st)] + Cardinality(ul.pend) - 1
             /\ host' = host /\ loopSt' = loopSt ]_vars

C25_Witness ==
    /\ LastCall = "load"
    /\ ld.st = "err" /\ ld.err = "HookError"
    /\ Len(piece.pre_load_hooks) = 2
    /\ Len(log) = 3
    /\ log[3].op = "hook_raise"
    /\ \A k \in LogIdx : log[k].op # "hook_end"
    /\ \A slot \in HookSlots : orphans[slot] = 0

(* C26.  As stated, in the form a finished call refutes: on a               *)
(* prefix-capable bot a load in which no hook raised and the bot rejected   *)
(* nothing, and an unload in which no hook raised, end normally, with the   *)
(* sync signalled.                                                          *)
C26_CallsComplete ==
    /\ (LastCall = "load" /\ IsBotBase(botKind) /\ ld.st \in {"ok", "err"} /\ NoHookRaised
           /\ ld.err \notin {"CommandRegistrationError", "RuntimeError"}) =>
          (ld.st = "ok" /\ SyncsOf("load") # {})
    /\ (UnloadEnded /\ IsBotBase(botKind) /\ NoHookRaised) =>
          (ul.st = "ok" /\ SyncsOf("unload") # {})

(* C27.  As stated: a command another extension put on the bot stays on the *)
(* bot whatever the piece's load and unload do.                             *)
C27_ForeignStays ==
    \A tbl \in {"all_commands", "all_slash_commands"} : \A n \in Names :
        BotTables(TRUE)[tbl][n] = Foreign => host[tbl][n] = Foreign

(* C28.  As stated: after an unload that returned normally, whatever calls  *)
(* came before it, nothing of the piece is on the bot: no command, no       *)
(* global check, no listener, and none of its loops is running.             *)
CommandTables ==
    {"all_commands", "all_slash_commands", "all_user_commands", "all_message_commands"}

CheckTableNames ==
    {"checks", "check_once", "slash_command_checks", "user_command_checks",
     "message_command_checks"}

NothingAttached ==
    /\ \A tbl \in CommandTables : \A n \in Names : host[tbl][n] \in {NoCmd, Foreign}
    /\ \A tbl \in CheckTableNames : \A i \in 1..Len(host[tbl]) : host[tbl][i] \notin Preds
    /\ \A e \in Events : \A i \in 1..Len(host.extra_events[e]) :
         host.extra_events[e][i] \notin Callables
    /\ \A i \in 1..Len(piece.loops) : loopSt[piece.loops[i]].task # "running"

C28_NothingLeftAfterUnload ==
    (LastCall = "unload" /\ ul.st = "ok") => NothingAttached

(* C29.  No step of load or unload changes what the piece has registered:   *)
(* the four command mappings, the listeners, the loops and the four hook    *)
(* lists hold the same entries in the same order afterwards.                *)
RegistrySlots ==
    {"commands", "message_commands", "slash_commands", "user_commands",
     "listeners", "loops"} \cup HookSlots

C29_RegistryUnchanged ==
    [][ LifecycleStep => \A slot \in RegistrySlots : piece'[slot] = piece[slot] ]_vars

C29_Witness ==
    /\ LastCall = "unload" /\ ul.st = "ok"
    /\ hist.loaded
    /\ piece.post_load_hooks # <<>>
    /\ piece.slash_commands # <<>> \/ piece.listeners # <<>> \/ piece.loops # <<>>

(* C30.  Within one call every hook of a phase the call has reached was     *)
(* called exactly once, the pre hooks in every call; no hook is called      *)
(* twice, and load calls only load hooks, unload only unload hooks.         *)
StartsOf(call, slot, n) ==
    {k \in LogIdx : IsHook(log[k], call, "hook_start", slot) /\ log[k].x = n}

OncePerPhase(call, c, pre, post) ==
    LastCall = call =>
        /\ \A n \in 1..Len(piece[pre]) : Cardinality(StartsOf(call, pre, n)) = 1
        /\ \A n \in 1..Len(piece[post]) :
             Cardinality(StartsOf(call, post, n)) = (IF c.st \in {"post", "ok"} THEN 1 ELSE 0)
                \/ (c.err = "HookError" /\ Cardinality(StartsOf(call, post, n)) = 1)

C30_HooksOncePerPhase ==
    /\ \A k \in LogIdx :
         /\ log[k].call = LastCall
         /\ log[k].cat \in HookSlots =>
               log[k].cat \in (IF log[k].call = "load"
                               THEN {"pre_load_hooks", "post_load_hooks"}
                               ELSE {"pre_unload_hooks", "post_unload_hooks"})
    /\ OncePerPhase("load", ld, "pre_load_hooks", "post_load_hooks")
    /\ OncePerPhase("unload", ul, "pre_unload_hooks", "post_unload_hooks")

C30_Witness ==
    /\ LastCall = "unload" /\ ul.st = "ok"
    /\ Len(piece.pre_unload_hooks) = 1 /\ Len(piece.post_unload_hooks) = 1
    /\ Cardinality(StartsOf("unload", "pre_unload_hooks", 1)) = 1
    /\ Cardinality(StartsOf("unload", "post_unload_hooks", 1)) = 1

(* C31.  On a bot that is not a BotBase, load and unload leave out the      *)
(* prefix part: the bot's ordinary commands, its checks and its call-once   *)
(* checks stay as they were, no step of either call is on one of these      *)
(* three categories, every ordinary command keeps the checks it was         *)
(* registered with, and neither call ends at the unassigned call-once slot. *)
(* Everything else is done: a load that returned normally attached every    *)
(* application command with its checks prepended, every application check   *)
(* and listener, started every loop, ran every hook and signalled sync; an  *)
(* unload that returned normally removed and cancelled the same and         *)
(* signalled sync.                                                          *)
PrefixCats == {"all_commands", "global_command_checks", "global_command_once_checks"}

AppCommands == SumLens(piece, <<"slash_commands", "user_commands", "message_commands">>)

AppChecks ==
    SumLens(piece, <<"global_application_command_checks", "global_slash_command_checks",
                     "global_user_command_checks", "global_message_command_checks">>)

HooksEnded(call, slot) ==
    \A n \in 1..Len(piece[slot]) :
        \E k \in LogIdx : IsHook(log[k], call, "hook_end", slot) /\ log[k].x = n

C31_PrefixPartSkipped ==
    ~IsBotBase(botKind) =>
        /\ host.all_commands = BotTables(TRUE).all_commands
        /\ host.checks = BotTables(TRUE).checks
        /\ host.check_once = BotTables(TRUE).check_once
        /\ \A k \in LogIdx : log[k].cat \notin PrefixCats
        /\ \A i \in 1..Len(objs) : IsOrdinary(objs[i]) => objs[i].checks \in OwnChecks
        /\ ld.err # "AttributeError" /\ ul.err # "AttributeError"
        /\ (LastCall = "load" /\ ld.st = "ok") =>
             /\ CountOp("add", Len(log)) = AppCommands
             /\ CountOp("prepend", Len(log)) = AppCommands
             /\ CountOp("add_check", Len(log)) = AppChecks
             /\ CountOp("add_listener", Len(log)) = SumFns(piece.listeners)
             /\ CountOp("start", Len(log)) = Len(piece.loops)
             /\ HooksEnded("load", "pre_load_hooks")
             /\ HooksEnded("load", "post_load_hooks")
             /\ SyncsOf("load") = {Len(log)}
        /\ (LastCall = "unload" /\ ul.st = "ok") =>
             /\ CountUnloadOp("remove", Len(log)) = AppCommands
             /\ CountUnloadOp("remove_check", Len(log)) = AppChecks
             /\ CountUnloadOp("remove_listener", Len(log)) = SumFns(piece.listeners)
             /\ CountUnloadOp("cancel", Len(log)) = Len(piece.loops)
             /\ HooksEnded("unload", "pre_unload_hooks")
             /\ HooksEnded("unload", "post_unload_hooks")
             /\ SyncsOf("unload") = {Len(log)}

C31_Witness ==
    /\ ~IsBotBase(botKind)
    /\ piece.commands # <<>>
    /\ piece.command_checks # <<>> \/ piece.global_command_checks # <<>>
          \/ piece.slash_commands # <<>>
    /\ ld.st = "ok" /\ ul.st = "ok" /\ LastCall = "unload"
    /\ SyncsOf("unload") = {Len(log)}

====
